---- MODULE Spec2Model ----
(***************************************************************************)
(* WebSocketClient (src/WebSocketClient.ts): a reconnecting WebSocket      *)
(* client with a message queue and promise based messageId messaging.      *)
(*                                                                         *)
(* The client's private fields are the variables of the same names.  The   *)
(* browser side (the ready state of every WebSocket the client created,    *)
(* the active intervals, the scheduled timeouts, the clock) is state too.  *)
(* Every method and every event handler is an operator from a world (a     *)
(* record of all the variables) to the world it leaves behind, so that a   *)
(* handler that calls another method is the composition of the two.        *)
(***************************************************************************)
EXTENDS Integers, Sequences, FiniteSets, TLC

VARIABLES
    messageQueueing,          \* options.messageQueueing
    messageMaxQueueSeconds,   \* options.messageMaxQueueSeconds
    socket,                   \* #socket: 0 is undefined, else a socket id
    connected,                \* #connected
    messageQueue,             \* #messageQueue: Seq of QueueItem
    reconnectIntervalHandle,  \* #reconnectIntervalHandle
    resolverQueue,            \* #resolverQueue: messageId -> call (0: no entry)
    shouldReconnect,          \* #shouldReconnect
    readyState,               \* WebSocket.readyState of every socket created
    intervals,                \* ids of the active setInterval timers
    timeouts,                 \* the scheduled setTimeout callbacks
    now,                      \* Date.now(), in milliseconds
    wire,                     \* what the sockets transmitted, in order
    delivered,                \* call -> the values its resolver was given
    nextMsg,                  \* the number of the next body passed to send()
    nextCall,                 \* the number of the next sendMessageWithPromise
    rejected,                 \* calls whose promise executor raised
    orphaned,                 \* calls whose registry entry was overwritten
    threw,                    \* the last operation raised an exception
    idx,                      \* SerializedId.idx, the static counter
    issued,                   \* the ids SerializedId.next returned, in order
    other                     \* a second WebSocketClient of the same page

vars == <<messageQueueing, messageMaxQueueSeconds, socket, connected,
          messageQueue, reconnectIntervalHandle, resolverQueue,
          shouldReconnect, readyState, intervals, timeouts, now, wire,
          delivered, nextMsg, nextCall, rejected, orphaned, threw, idx,
          issued, other>>

----------------------------------------------------------------------------
(* Bounds of the model. *)

\* WebSocket objects the client may create in one run.
MaxSockets == 2
\* Bodies passed to send() in one run, by send() itself, by
\* sendMessageWithPromise or by the caller's onOpen callback.
MaxSends == 2
\* The clock advances one second at a time, MaxTicks times at most.
MaxTicks == 2
\* Ids taken from SerializedId.next in one run.
MaxIds == 3

\* (messageMaxQueueSeconds ?? 0) * 1000: milliseconds in a second
MsPerSecond == 1000

SocketIds == 1..MaxSockets
\* Every sendMessageWithPromise passes one body to send().
Calls == 1..MaxSends
MessageIds == {"id-1"}
Results == {"pong"}
Undefined == "undefined"
MaxNow == MaxTicks * MsPerSecond
\* sendMessageWithPromise(..., timeoutMs: number = 1000)
DefaultTimeoutMs == 1000
MaxQueueSecondsOptions == {0, 1}
OpenHooks == {"none", "send", "disconnect", "reconnect"}

\* new QueueItem(time, message)
QueueItem(time, message) == [time |-> time, message |-> message]

----------------------------------------------------------------------------
(* The world the methods act on. *)

World ==
    [messageQueueing |-> messageQueueing,
     messageMaxQueueSeconds |-> messageMaxQueueSeconds,
     socket |-> socket, connected |-> connected,
     messageQueue |-> messageQueue,
     reconnectIntervalHandle |-> reconnectIntervalHandle,
     resolverQueue |-> resolverQueue, shouldReconnect |-> shouldReconnect,
     readyState |-> readyState, intervals |-> intervals,
     timeouts |-> timeouts, now |-> now, wire |-> wire,
     delivered |-> delivered, nextMsg |-> nextMsg, nextCall |-> nextCall,
     rejected |-> rejected, orphaned |-> orphaned, threw |-> FALSE,
     idx |-> idx, issued |-> issued, other |-> other]

Become(w) ==
    /\ messageQueueing' = w.messageQueueing
    /\ messageMaxQueueSeconds' = w.messageMaxQueueSeconds
    /\ socket' = w.socket
    /\ connected' = w.connected
    /\ messageQueue' = w.messageQueue
    /\ reconnectIntervalHandle' = w.reconnectIntervalHandle
    /\ resolverQueue' = w.resolverQueue
    /\ shouldReconnect' = w.shouldReconnect
    /\ readyState' = w.readyState
    /\ intervals' = w.intervals
    /\ timeouts' = w.timeouts
    /\ now' = w.now
    /\ wire' = w.wire
    /\ delivered' = w.delivered
    /\ nextMsg' = w.nextMsg
    /\ nextCall' = w.nextCall
    /\ rejected' = w.rejected
    /\ orphaned' = w.orphaned
    /\ threw' = w.threw
    /\ idx' = w.idx
    /\ issued' = w.issued
    /\ other' = w.other

----------------------------------------------------------------------------
(* The browser: WebSocket, setInterval, clearInterval. *)

\* The sockets created so far are 1..SocketCount(w).
SocketCount(w) ==
    Cardinality({s \in DOMAIN w.readyState : w.readyState[s] # "none"})

\* WebSocket.close(): a connecting socket fails its connection, an open one
\* starts the closing handshake, a closing or closed one is left alone.
\* s = 0 is the undefined handle of `this.#socket?.close()`.
SocketClose(w, s) ==
    IF s = 0 THEN w
    ELSE CASE w.readyState[s] = "connecting" ->
                [w EXCEPT !.readyState[s] = "closingConnect"]
           [] w.readyState[s] = "open" ->
                [w EXCEPT !.readyState[s] = "closingOpen"]
           [] OTHER -> w

\* WebSocket.send(data): raises InvalidStateError on a connecting socket,
\* transmits on an open one, discards the data on a closing or closed one.
SocketSend(w, s, message) ==
    IF s = 0 THEN w
    ELSE CASE w.readyState[s] = "connecting" -> [w EXCEPT !.threw = TRUE]
           [] w.readyState[s] = "open" ->
                [w EXCEPT !.wire = Append(@, message)]
           [] OTHER -> w

\* Mutant of NewIntervalId: an id that a second client still holds, its
\* interval cleared, is given out again.
NewIntervalId_Reused(w) ==
    CHOOSE i \in 1..(Cardinality(w.intervals) + 3) :
        i \notin w.intervals \cup {w.reconnectIntervalHandle}

\* setInterval returns a fresh id: one that no active interval has and that
\* differs from the ids the clients of the page still hold.
NewIntervalId(w) ==
    CHOOSE i \in 1..(Cardinality(w.intervals) + 3) :
        i \notin w.intervals \cup {w.reconnectIntervalHandle,
                                  w.other.reconnectIntervalHandle}

----------------------------------------------------------------------------
(* The methods of WebSocketClient. *)

\* Mutant of stopConnectLoop: the interval is left running.
stopConnectLoop_KeepsInterval(w) == w

stopConnectLoop(w) ==
    [w EXCEPT !.intervals = @ \ {w.reconnectIntervalHandle}]

\* Mutant of connect: the existing socket is dropped without close().
connect_NoClose(w) ==
    LET s == SocketCount(w) + 1
    IN  [w EXCEPT !.socket = s, !.readyState[s] = "connecting"]

connect(w) ==
    LET closed == SocketClose(w, w.socket)
        s == SocketCount(w) + 1
    IN  [closed EXCEPT !.socket = s, !.readyState[s] = "connecting"]

\* Mutant of startConnectLoop: the running interval is not cleared first.
startConnectLoop_NoStop(w, immediate) ==
    LET id == NewIntervalId(w)
        started == [w EXCEPT !.intervals = @ \cup {id},
                             !.reconnectIntervalHandle = id]
    IN  IF immediate THEN connect(started) ELSE started

startConnectLoop(w, immediate) ==
    LET stopped == stopConnectLoop(w)
        id == NewIntervalId(stopped)
        started == [stopped EXCEPT !.intervals = @ \cup {id},
                                   !.reconnectIntervalHandle = id]
    IN  IF immediate THEN connect(started) ELSE started

\* Mutant of init: one connection attempt is made, the loop is not started.
init_ConnectsOnce(w) ==
    connect([w EXCEPT !.shouldReconnect = TRUE])

init(w) ==
    startConnectLoop([w EXCEPT !.shouldReconnect = TRUE], TRUE)

\* Mutant of send: the body is queued whatever messageQueueing says.
send_AlwaysQueues(w, body) ==
    IF w.connected THEN SocketSend(w, w.socket, body)
    ELSE [w EXCEPT !.messageQueue = Append(@, QueueItem(w.now, body))]

send(w, body) ==
    IF w.connected THEN SocketSend(w, w.socket, body)
    ELSE IF w.messageQueueing
         THEN [w EXCEPT !.messageQueue = Append(@, QueueItem(w.now, body))]
         ELSE w

\* Mutant of reconnect: the loop is started without an immediate attempt.
reconnect_NoImmediate(w) ==
    LET flagged == [w EXCEPT !.shouldReconnect = TRUE]
    IN  startConnectLoop(SocketClose(flagged, flagged.socket), FALSE)

reconnect(w) ==
    LET flagged == [w EXCEPT !.shouldReconnect = TRUE]
    IN  startConnectLoop(SocketClose(flagged, flagged.socket), TRUE)

\* Mutant of disconnect: the scheduled timeouts are cleared as well.
disconnect_ClearsTimeouts(w) ==
    LET flagged == [w EXCEPT !.shouldReconnect = FALSE]
        closed == SocketClose(stopConnectLoop(flagged), flagged.socket)
    IN  [closed EXCEPT !.socket = 0, !.timeouts = {}]

\* Mutant of disconnect: the queued messages are dropped as well.
disconnect_ClearsQueue(w) ==
    LET flagged == [w EXCEPT !.shouldReconnect = FALSE]
        closed == SocketClose(stopConnectLoop(flagged), flagged.socket)
    IN  [closed EXCEPT !.socket = 0, !.messageQueue = <<>>]

disconnect(w) ==
    LET flagged == [w EXCEPT !.shouldReconnect = FALSE]
        closed == SocketClose(stopConnectLoop(flagged), flagged.socket)
    IN  [closed EXCEPT !.socket = 0]

isConnected(w) == w.connected

----------------------------------------------------------------------------
(* The event handlers that connect() installs on a socket. *)

\* The caller's onOpen callback: it may call the client back.
openHook(w, hook) ==
    CASE hook = "send" -> [send(w, w.nextMsg) EXCEPT !.nextMsg = @ + 1]
      [] hook = "disconnect" -> disconnect(w)
      [] hook = "reconnect" -> reconnect(w)
      [] OTHER -> w

\* Mutant of retained: no item is ever skipped.
retained_Always(w, item) == TRUE

\* Mutant of retained: an item of exactly the maximum age is skipped.
retained_StrictlyYounger(w, item) ==
    LET maxTime == w.messageMaxQueueSeconds * MsPerSecond
    IN  maxTime = 0 \/ (w.now - item.time) < maxTime

\* Mutant of retained: a maximum of 0 is a maximum like any other.
retained_OnlyByAge(w, item) ==
    LET maxTime == w.messageMaxQueueSeconds * MsPerSecond
    IN  (w.now - item.time) <= maxTime

\* maxTime == 0 || (now - item.time) <= maxTime
retained(w, item) ==
    LET maxTime == w.messageMaxQueueSeconds * MsPerSecond
    IN  maxTime = 0 \/ (w.now - item.time) <= maxTime

\* Mutant of flushFrom: the queue is gone through from its last item to its
\* first.
RECURSIVE flushFrom_LastFirst(_, _)
flushFrom_LastFirst(w, i) ==
    IF i > Len(w.messageQueue) THEN w
    ELSE LET item == w.messageQueue[Len(w.messageQueue) - i + 1]
             sent == IF retained(w, item)
                     THEN SocketSend(w, w.socket, item.message)
                     ELSE w
         IN  IF sent.threw THEN sent ELSE flushFrom_LastFirst(sent, i + 1)

\* for (const item of self.#messageQueue) { ... self.#socket?.send(...) }
\* from item i on; an exception of send ends the loop and the handler.
RECURSIVE flushFrom(_, _)
flushFrom(w, i) ==
    IF i > Len(w.messageQueue) THEN w
    ELSE LET item == w.messageQueue[i]
             sent == IF retained(w, item)
                     THEN SocketSend(w, w.socket, item.message)
                     ELSE w
         IN  IF sent.threw THEN sent ELSE flushFrom(sent, i + 1)

\* Mutant of onOpen: the onOpen callback runs first, before the client is
\* marked connected and the interval is cleared.
onOpen_HookFirst(w, hook) ==
    LET hooked == openHook(w, hook)
        marked == stopConnectLoop([hooked EXCEPT !.connected = TRUE])
        flushed == flushFrom(marked, 1)
    IN  IF flushed.threw THEN flushed
        ELSE [flushed EXCEPT !.messageQueue = <<>>]

onOpen(w, hook) ==
    LET marked == stopConnectLoop([w EXCEPT !.connected = TRUE])
        hooked == openHook(marked, hook)
        flushed == flushFrom(hooked, 1)
    IN  IF flushed.threw THEN flushed
        ELSE [flushed EXCEPT !.messageQueue = <<>>]

\* Mutant of onClose: the connect loop is started whatever the flag says.
onClose_AlwaysRestarts(w) ==
    startConnectLoop([w EXCEPT !.connected = FALSE], FALSE)

\* Mutant of onClose: the connect loop is not started again.
onClose_NoRestart(w) == [w EXCEPT !.connected = FALSE]

onClose(w) ==
    LET marked == [w EXCEPT !.connected = FALSE]
    IN  IF marked.shouldReconnect THEN startConnectLoop(marked, FALSE)
        ELSE marked

\* Mutant of onMessage: an inbound message resolves a pending messageId.
onMessage_ResolvesPending(w) ==
    LET m == CHOOSE m \in MessageIds : TRUE
    IN  IF w.resolverQueue[m] # 0
        THEN [w EXCEPT !.delivered[w.resolverQueue[m]] = Append(@, "pong"),
                       !.resolverQueue[m] = 0]
        ELSE w

\* Log.v(...); self.#onMessage(ev): no field of the client is written.
onMessage(w) == w

onError(w) ==
    startConnectLoop(SocketClose(w, w.socket), FALSE)

----------------------------------------------------------------------------
(* Promise based messageId messaging. *)

\* setTimeout(() => {...}, timeoutMs): the callback keeps messageId; call
\* names the sendMessageWithPromise that scheduled it.
Timeout(messageId, call, due) ==
    [messageId |-> messageId, call |-> call, due |-> due]

\* resolver(result), resolver being the resolve function of call's promise
runResolver(w, call, result) ==
    [w EXCEPT !.delivered[call] = Append(@, result)]

\* Mutant of registerResolver: the resolver that is replaced is run with
\* undefined first.
registerResolver_SettlesReplaced(w, messageId, call, timeoutMs) ==
    LET old == w.resolverQueue[messageId]
        settled == IF old # 0 THEN runResolver(w, old, Undefined) ELSE w
    IN  [settled EXCEPT
            !.resolverQueue[messageId] = call,
            !.orphaned = IF old # 0 THEN @ \cup {old} ELSE @,
            !.timeouts = @ \cup {Timeout(messageId, call, w.now + timeoutMs)}]

\* Map.set replaces the resolver the id had: that call is orphaned.
registerResolver(w, messageId, call, timeoutMs) ==
    [w EXCEPT !.resolverQueue[messageId] = call,
              !.orphaned = IF w.resolverQueue[messageId] # 0
                           THEN @ \cup {w.resolverQueue[messageId]} ELSE @,
              !.timeouts = @ \cup {Timeout(messageId, call, w.now + timeoutMs)}]

\* Mutant of timeoutCallback: the entry is deleted, the resolver is not run.
timeoutCallback_SkipsResolver(w, messageId) ==
    [w EXCEPT !.resolverQueue[messageId] = 0]

\* Mutant of timeoutCallback: the resolver is run, its entry is kept.
timeoutCallback_KeepsEntry(w, messageId) ==
    LET enqueuedResolver == w.resolverQueue[messageId]
    IN  IF enqueuedResolver # 0
        THEN runResolver(w, enqueuedResolver, Undefined)
        ELSE w

\* The callback registerResolver hands to setTimeout.
timeoutCallback(w, messageId) ==
    LET enqueuedResolver == w.resolverQueue[messageId]
    IN  IF enqueuedResolver # 0
        THEN [runResolver(w, enqueuedResolver, Undefined)
                 EXCEPT !.resolverQueue[messageId] = 0]
        ELSE w

\* Mutant of resolvePromise: a messageId without an entry raises.
resolvePromise_RaisesOnUnknown(w, messageId, result) ==
    LET resolver == w.resolverQueue[messageId]
    IN  IF resolver # 0
        THEN [runResolver(w, resolver, result)
                 EXCEPT !.resolverQueue[messageId] = 0]
        ELSE [w EXCEPT !.threw = TRUE]

\* Mutant of resolvePromise: the resolver is run, its entry is kept.
resolvePromise_KeepsEntry(w, messageId, result) ==
    LET resolver == w.resolverQueue[messageId]
    IN  IF resolver # 0 THEN runResolver(w, resolver, result) ELSE w

resolvePromise(w, messageId, result) ==
    LET resolver == w.resolverQueue[messageId]
    IN  IF resolver # 0
        THEN [runResolver(w, resolver, result)
                 EXCEPT !.resolverQueue[messageId] = 0]
        ELSE w

\* Mutant of sendMessageWithPromise: send(body) comes first, so that an
\* exception of send leaves the resolver unregistered.
sendMessageWithPromise_SendsFirst(w, body, messageId, timeoutMs) ==
    LET call == w.nextCall
        sent == send(w, body)
        registered == IF sent.threw THEN sent
                      ELSE registerResolver(sent, messageId, call, timeoutMs)
    IN  [registered EXCEPT
            !.nextCall = @ + 1,
            !.rejected = IF sent.threw THEN @ \cup {call} ELSE @,
            !.threw = FALSE]

\* new Promise((resolve) => { registerResolver(...); send(body) }): an
\* exception of send rejects the promise and is not raised to the caller.
sendMessageWithPromise(w, body, messageId, timeoutMs) ==
    LET call == w.nextCall
        registered == registerResolver(w, messageId, call, timeoutMs)
        sent == send(registered, body)
    IN  [sent EXCEPT !.nextCall = @ + 1,
                     !.rejected = IF sent.threw THEN @ \cup {call} ELSE @,
                     !.threw = FALSE]

----------------------------------------------------------------------------
(* SerializedId and ValueUtils.kebabCase.  A string is the sequence of its *)
(* characters.                                                             *)

\* The tags (client names) passed to SerializedId.next; <<>> is the empty
\* string, which is falsy as undefined is.
Tags ==
    {<<>>, <<" ">>, <<"a">>, <<"A">>, <<"a", " ", "1">>, <<"a", "-", "1">>,
     <<"m", "e", "s", "s", "a", "g", "e", "-", "i", "d">>}

Whitespace == {" "}

\* String.prototype.toLowerCase, on one character
ToLowerCase(c) == IF c = "A" THEN "a" ELSE c

\* String.prototype.trim
RECURSIVE Trim(_)
Trim(str) ==
    IF str = <<>> THEN str
    ELSE IF Head(str) \in Whitespace THEN Trim(Tail(str))
    ELSE IF str[Len(str)] \in Whitespace
         THEN Trim(SubSeq(str, 1, Len(str) - 1))
         ELSE str

\* str.toLowerCase().replace(/\s/g, '-')
kebabCase(str) ==
    [i \in DOMAIN str |->
        IF ToLowerCase(str[i]) \in Whitespace THEN "-"
        ELSE ToLowerCase(str[i])]

DigitChars == <<"0", "1", "2", "3", "4", "5", "6", "7", "8", "9">>

\* `${n}` for a natural number n: its decimal digits
RECURSIVE NumberToString(_)
NumberToString(n) ==
    IF n < 10 THEN <<DigitChars[n + 1]>>
    ELSE NumberToString(n \div 10) \o <<DigitChars[(n % 10) + 1]>>

MessageIdPrefix ==
    <<"m", "e", "s", "s", "a", "g", "e", "-", "i", "d", "-">>

\* Mutant of SerializedIdNext: a tagged id is the tag alone.
SerializedIdNext_TagOnly(w, tag) ==
    LET n == w.idx + 1
        id == IF tag # <<>> THEN kebabCase(Trim(tag))
              ELSE MessageIdPrefix \o NumberToString(n)
    IN  [w EXCEPT !.idx = n, !.issued = Append(@, id)]

\* SerializedId.next(tag?)
SerializedIdNext(w, tag) ==
    LET n == w.idx + 1
        id == IF tag # <<>>
              THEN kebabCase(Trim(tag)) \o <<"-">> \o NumberToString(n)
              ELSE MessageIdPrefix \o NumberToString(n)
    IN  [w EXCEPT !.idx = n, !.issued = Append(@, id)]

\* getNextMessageId() of a client whose options.clientName is clientName
getNextMessageId(w, clientName) == SerializedIdNext(w, clientName)

----------------------------------------------------------------------------
Init ==
    /\ messageQueueing \in BOOLEAN
    /\ messageMaxQueueSeconds \in MaxQueueSecondsOptions
    /\ socket = 0
    /\ connected = FALSE
    /\ messageQueue = <<>>
    /\ reconnectIntervalHandle = 0
    /\ resolverQueue = [m \in MessageIds |-> 0]
    /\ shouldReconnect = FALSE
    /\ readyState = [s \in SocketIds |-> "none"]
    /\ intervals = {}
    /\ timeouts = {}
    /\ now = 0
    /\ wire = <<>>
    /\ delivered = [c \in Calls |-> <<>>]
    /\ nextMsg = 1
    /\ nextCall = 1
    /\ rejected = {}
    /\ orphaned = {}
    /\ threw = FALSE
    /\ idx = 0
    /\ issued = <<>>
    /\ other = [messageQueueing |-> messageQueueing,
                messageMaxQueueSeconds |-> messageMaxQueueSeconds,
                socket |-> 0, connected |-> FALSE, messageQueue |-> <<>>,
                reconnectIntervalHandle |-> 0,
                resolverQueue |-> [m \in MessageIds |-> 0],
                shouldReconnect |-> FALSE, sockets |-> {}, calls |-> {}]

CanConnect == SocketCount(World) < MaxSockets

CallInit ==
    /\ CanConnect
    /\ Become(init(World))

CallSend ==
    /\ nextMsg <= MaxSends
    /\ Become([send(World, nextMsg) EXCEPT !.nextMsg = @ + 1])

CallReconnect ==
    /\ CanConnect
    /\ Become(reconnect(World))

CallDisconnect ==
    /\ TRUE
    /\ Become(disconnect(World))

CallResolvePromise ==
    \E messageId \in MessageIds, result \in Results :
        /\ TRUE
        /\ Become(resolvePromise(World, messageId, result))

CallSendMessageWithPromise ==
    \E messageId \in MessageIds :
        /\ nextMsg <= MaxSends
        /\ now + DefaultTimeoutMs <= MaxNow
        /\ Become([sendMessageWithPromise(World, nextMsg, messageId,
                                          DefaultTimeoutMs)
                      EXCEPT !.nextMsg = @ + 1])

\* A scheduled timeout fires, not before it is due.
TimeoutFire ==
    \E t \in timeouts :
        /\ now >= t.due
        /\ Become(timeoutCallback([World EXCEPT !.timeouts = @ \ {t}],
                                  t.messageId))

\* A tick of an active interval runs connect().
IntervalTick ==
    \E id \in intervals :
        /\ CanConnect
        /\ Become(connect(World))

\* The connection of a connecting socket is established: open event.
OpenEvent ==
    \E s \in SocketIds, hook \in OpenHooks :
        /\ readyState[s] = "connecting"
        /\ hook = "reconnect" => CanConnect
        /\ hook = "send" => nextMsg <= MaxSends
        /\ Become(onOpen([World EXCEPT !.readyState[s] = "open"], hook))

\* The connection of a socket is closed cleanly: close event.
CloseEvent ==
    \E s \in SocketIds :
        /\ readyState[s] \in {"open", "closingOpen"}
        /\ Become(onClose([World EXCEPT !.readyState[s] = "closed"]))

\* The connection of a socket fails (it could not be established, it broke,
\* or close() was called before it was established): the browser sets the
\* socket closed and fires error and then close in one task.
FailEvent ==
    \E s \in SocketIds :
        /\ readyState[s] \in {"connecting", "open", "closingConnect"}
        /\ Become(onClose(onError([World EXCEPT !.readyState[s] = "closed"])))

MessageEvent ==
    \E s \in SocketIds :
        /\ readyState[s] = "open"
        /\ Become(onMessage(World))

\* Some client, whatever its clientName, is asked for a message id.
CallGetNextMessageId ==
    \E clientName \in Tags :
        /\ idx < MaxIds
        /\ Become(getNextMessageId(World, clientName))

\* SerializedId.next is called directly, with or without a tag.
CallSerializedIdNext ==
    \E tag \in Tags :
        /\ idx < MaxIds
        /\ Become(SerializedIdNext(World, tag))

----------------------------------------------------------------------------
(* Two clients of one page.  The fields of a WebSocketClient are private   *)
(* instance fields, and its handlers are closures over `this`, so a method *)
(* or handler runs on the world in which its own client is the current one *)
(* and the second client is `other`.  The clients share the browser: the   *)
(* timer ids, the clock, the event loop.                                   *)

Clients == {"this", "other"}

\* The sockets and the calls of the current client: those the second one
\* did not make.
Mine(w) == {s \in DOMAIN w.readyState : w.readyState[s] # "none"} \ w.other.sockets
MyCalls(w) == 1..(w.nextCall - 1) \ w.other.calls

\* The same page with the second client as the current one.
Swap(w) ==
    [w EXCEPT
        !.messageQueueing = w.other.messageQueueing,
        !.messageMaxQueueSeconds = w.other.messageMaxQueueSeconds,
        !.socket = w.other.socket,
        !.connected = w.other.connected,
        !.messageQueue = w.other.messageQueue,
        !.reconnectIntervalHandle = w.other.reconnectIntervalHandle,
        !.resolverQueue = w.other.resolverQueue,
        !.shouldReconnect = w.other.shouldReconnect,
        !.other = [messageQueueing |-> w.messageQueueing,
                   messageMaxQueueSeconds |-> w.messageMaxQueueSeconds,
                   socket |-> w.socket, connected |-> w.connected,
                   messageQueue |-> w.messageQueue,
                   reconnectIntervalHandle |-> w.reconnectIntervalHandle,
                   resolverQueue |-> w.resolverQueue,
                   shouldReconnect |-> w.shouldReconnect,
                   sockets |-> Mine(w), calls |-> MyCalls(w)]]

\* The page as the client `who` sees it, and the step that leaves the page
\* as the world r that client's method or handler returned.
View(who) == IF who = "this" THEN World ELSE Swap(World)
Settle(who, r) == Become(IF who = "this" THEN r ELSE Swap(r))

\* What each operation and each event of the current client may leave of
\* the page w.
InitSteps(w) ==
    IF SocketCount(w) < MaxSockets THEN {init(w)} ELSE {}

DisconnectSteps(w) == {disconnect(w)}

SendMessageWithPromiseSteps(w) ==
    IF w.nextMsg <= MaxSends /\ w.now + DefaultTimeoutMs <= MaxNow
    THEN {[sendMessageWithPromise(w, w.nextMsg, messageId, DefaultTimeoutMs)
              EXCEPT !.nextMsg = @ + 1] : messageId \in MessageIds}
    ELSE {}

\* The interval a client started runs that client's connect().
IntervalTickSteps(w) ==
    IF SocketCount(w) < MaxSockets /\ w.reconnectIntervalHandle \in w.intervals
    THEN {connect(w)}
    ELSE {}

\* The events of a socket run the handlers of the client that created it.
OpenEventSteps(w) ==
    {onOpen([w EXCEPT !.readyState[s] = "open"], "none") :
        s \in {m \in Mine(w) : w.readyState[m] = "connecting"}}

FailEventSteps(w) ==
    {onClose(onError([w EXCEPT !.readyState[s] = "closed"])) :
        s \in {m \in Mine(w) :
                 w.readyState[m] \in {"connecting", "open", "closingConnect"}}}

PageInit(who) ==
    \E r \in InitSteps(View(who)) : Settle(who, r)

PageDisconnect(who) ==
    \E r \in DisconnectSteps(View(who)) : Settle(who, r)

PageSendMessageWithPromise(who) ==
    \E r \in SendMessageWithPromiseSteps(View(who)) : Settle(who, r)

PageIntervalTick(who) ==
    \E r \in IntervalTickSteps(View(who)) : Settle(who, r)

PageOpenEvent(who) ==
    \E r \in OpenEventSteps(View(who)) : Settle(who, r)

PageFailEvent(who) ==
    \E r \in FailEventSteps(View(who)) : Settle(who, r)

\* A second passes.
Tick ==
    /\ now + MsPerSecond <= MaxNow
    /\ Become([World EXCEPT !.now = @ + MsPerSecond])

Next ==
    \/ CallInit
    \/ CallSend
    \/ CallReconnect
    \/ CallDisconnect
    \/ CallResolvePromise
    \/ CallSendMessageWithPromise
    \/ TimeoutFire
    \/ IntervalTick
    \/ OpenEvent
    \/ CloseEvent
    \/ FailEvent
    \/ MessageEvent
    \/ Tick
    \/ CallGetNextMessageId
    \/ CallSerializedIdNext

Spec == Init /\ [][Next]_vars

\* The connection and the queue alone.  No method or handler of the
\* connection reads the resolver registry, and sendMessageWithPromise acts
\* on the connection and the queue only through send().
NextConnection ==
    \/ CallInit
    \/ CallSend
    \/ CallReconnect
    \/ CallDisconnect
    \/ IntervalTick
    \/ OpenEvent
    \/ CloseEvent
    \/ FailEvent
    \/ MessageEvent
    \/ Tick

SpecConnection == Init /\ [][NextConnection]_vars

\* The resolver registry on a client that is started and opened (the
\* caller's onOpen callback may disconnect or reconnect it).  The registry
\* is read and written by registerResolver, resolvePromise and the timeout
\* callback only.
NextRegistry ==
    \/ CallInit
    \/ OpenEvent
    \/ CallResolvePromise
    \/ CallSendMessageWithPromise
    \/ TimeoutFire
    \/ Tick

SpecRegistry == Init /\ [][NextRegistry]_vars

\* The registry and its timeouts on a client that is started and stopped
\* while its sockets are still connecting.  The event loop runs every
\* timeout that is due, and time passes.
NextTimeouts ==
    \/ CallInit
    \/ CallDisconnect
    \/ CallResolvePromise
    \/ CallSendMessageWithPromise
    \/ TimeoutFire
    \/ Tick

FairSpecTimeouts ==
    Init /\ [][NextTimeouts]_vars /\ WF_vars(TimeoutFire) /\ WF_vars(Tick)

\* The registry on a client whose open socket receives messages.
NextInbound ==
    \/ NextRegistry
    \/ MessageEvent

SpecInbound == Init /\ [][NextInbound]_vars

\* The id generator alone: the static counter is read and written by
\* SerializedId.next only.
NextIds ==
    \/ CallGetNextMessageId
    \/ CallSerializedIdNext

SpecIds == Init /\ [][NextIds]_vars

\* Two clients of one page, each started, stopped, opened, failed and used
\* for messageId messaging on its own.
Acts(who) ==
    \/ PageInit(who)
    \/ PageDisconnect(who)
    \/ PageSendMessageWithPromise(who)
    \/ PageIntervalTick(who)
    \/ PageOpenEvent(who)
    \/ PageFailEvent(who)

NextPage == \E who \in Clients : Acts(who)

\* Both clients queue, without a maximum age: the clock stands still here.
InitPage ==
    /\ Init
    /\ messageQueueing = TRUE
    /\ messageMaxQueueSeconds = 0

SpecPage == InitPage /\ [][NextPage]_vars

\* ENABLED <<OpenEvent>>_vars: the guards of OpenEvent for some socket and
\* some callback (the step sets readyState[s], so it is no stuttering step).
OpenEventEnabled ==
    \E s \in SocketIds, hook \in OpenHooks :
        /\ readyState[s] = "connecting"
        /\ hook = "reconnect" => CanConnect
        /\ hook = "send" => nextMsg <= MaxSends

\* ENABLED <<IntervalTick>>_vars: connect() always gives #socket a new value.
IntervalTickEnabled == intervals # {} /\ CanConnect

\* The connection under fair scheduling: an active interval keeps ticking,
\* and the server accepts connections (a socket that stays connecting is
\* opened).  These are WF_vars(IntervalTick) and WF_vars(OpenEvent), written
\* out with the two ENABLED predicates above.
FairSpecConnection ==
    /\ Init /\ [][NextConnection]_vars
    /\ ([]<>~IntervalTickEnabled \/ []<><<IntervalTick>>_vars)
    /\ ([]<>~OpenEventEnabled \/ []<><<OpenEvent>>_vars)

----------------------------------------------------------------------------
(* The resolver registry. *)

\* call has been made: sendMessageWithPromise returned its promise.
Made(call) == call < nextCall

\* C1: the resolver of every sendMessageWithPromise is run at most once (with
\* the result of a resolvePromise or with undefined by its timeout, never
\* both), and a resolver that is still in the registry has not been run.
C1_SettledAtMostOnce ==
    /\ \A c \in Calls : Len(delivered[c]) <= 1
    /\ \A m \in MessageIds :
          resolverQueue[m] # 0 => delivered[resolverQueue[m]] = <<>>

\* A call was resolved by resolvePromise and its own timeout has fired since.
C1_Witness ==
    \E c \in Calls :
        /\ Made(c)
        /\ delivered[c] = <<"pong">>
        /\ \A t \in timeouts : t.call # c

\* C2 as stated: once every scheduled timeout has fired, the resolver of
\* every call made has been run.
C2_EveryCallSettled ==
    timeouts = {} => \A c \in Calls : Made(c) => delivered[c] # <<>>

\* C2 amended: every call made is eventually settled, unless a later call
\* registered its messageId again while it was pending.
C2_SettledUnlessOverwritten ==
    \A c \in Calls : Made(c) ~> (delivered[c] # <<>> \/ c \in orphaned)

\* A call that nobody resolved was settled by its timeout.
C2_Witness ==
    \E c \in Calls :
        /\ delivered[c] = <<Undefined>>
        /\ orphaned = {}
        /\ timeouts = {}

\* C11: for a messageId that has no entry in the registry (never registered,
\* resolved already or timed out already), resolvePromise changes nothing:
\* it raises nothing, runs no resolver and leaves the registry, the queue and
\* the connection as they are.
C11_ResolveUnknownIsNoOp ==
    \A m \in MessageIds, r \in Results :
        resolverQueue[m] = 0 => resolvePromise(World, m, r) = World

\* One call was resolved and a later one timed out: the id has no entry, and
\* one more resolvePromise for it leaves both results as they are.
C11_Witness ==
    /\ resolverQueue["id-1"] = 0
    /\ delivered[1] = <<"pong">>
    /\ delivered[2] = <<Undefined>>
    /\ resolvePromise(World, "id-1", "pong").delivered = delivered

\* resolvePromise has run the resolver of call.
Resolved(call) == \E r \in Results : delivered[call] = <<r>>

\* The promise of call is fulfilled with value: its resolver was given value
\* first, and its executor had not raised (a promise whose executor raised
\* is rejected, and running its resolver afterwards changes nothing).
Yields(call, value) ==
    /\ delivered[call] # <<>>
    /\ delivered[call][1] = value
    /\ call \notin rejected

\* This step runs the callback of the scheduled timeout t.
TimeoutStep(t) == t \in timeouts /\ t \notin timeouts'

\* C12: when the timeout of a sendMessageWithPromise fires and no
\* resolvePromise has resolved the call (nor has a later call taken over its
\* messageId), the promise is then fulfilled with undefined and the
\* messageId has no entry in the registry, whatever the connection state
\* was when the call was made.
C12_TimeoutYieldsSentinel ==
    [][\A t \in timeouts :
          (TimeoutStep(t) /\ ~Resolved(t.call) /\ t.call \notin orphaned) =>
              /\ Yields(t.call, Undefined)'
              /\ resolverQueue'[t.messageId] = 0]_vars

\* C13: when resolvePromise runs the resolver of a pending call with result,
\* the promise is fulfilled with result; and when the timeout of a call that
\* resolvePromise has resolved fires later, no resolver is run and the
\* registry stays as it is.
C13_ResolvedThenTimeoutNoOp ==
    [][/\ \A c \in Calls, r \in Results :
             (delivered[c] = <<>> /\ delivered'[c] = <<r>>) => Yields(c, r)'
       /\ \A t \in timeouts :
             (TimeoutStep(t) /\ Resolved(t.call)) =>
                 /\ delivered' = delivered
                 /\ resolverQueue' = resolverQueue]_vars

\* disconnect() was called, and neither init() nor reconnect() since.
Disconnected == socket = 0 /\ ~shouldReconnect /\ SocketCount(World) > 0

\* C18: disconnect() leaves the registry and the scheduled timeouts as they
\* are, and a call that is pending on a disconnected client still has its
\* resolver run with undefined by a timeout (unless resolvePromise resolves
\* it first or a later call takes over its messageId).
C18_DisconnectKeepsTimeouts ==
    /\ [](LET left == disconnect(World)
          IN  /\ left.resolverQueue = resolverQueue
              /\ left.timeouts = timeouts
              /\ left.delivered = delivered)
    /\ \A c \in Calls, m \in MessageIds :
          (Disconnected /\ resolverQueue[m] = c) ~>
              (delivered[c] = <<Undefined>> \/ Resolved(c) \/ c \in orphaned)

\* The client was started and disconnected again, and the one call made has
\* been settled by its timeout.
C18_Witness ==
    /\ Disconnected
    /\ readyState[1] = "closingConnect"
    /\ nextCall = 2
    /\ delivered[1] = <<Undefined>>
    /\ timeouts = {}

\* C25: a sendMessageWithPromise with a messageId that is pending replaces
\* the entry (the id's one entry is the new call), and the resolver of the
\* earlier call is never run, neither by a resolvePromise nor by a timeout.
C25_ReplacedNeverSettled ==
    [][/\ \A m \in MessageIds :
             (nextCall' = nextCall + 1 /\ resolverQueue[m] # 0) =>
                 /\ resolverQueue'[m] = nextCall
                 /\ resolverQueue[m] \in orphaned'
       /\ \A c \in orphaned' : delivered'[c] = <<>>]_vars

\* Two calls with the same id, the second while the first was pending; both
\* timeouts have fired: the second was settled, the first never.
C25_Witness ==
    /\ orphaned = {1}
    /\ delivered[1] = <<>>
    /\ delivered[2] = <<Undefined>>
    /\ resolverQueue["id-1"] = 0
    /\ timeouts = {}

\* C26: when sendMessageWithPromise has passed its body to send() (which
\* transmits it, queues it, drops it or raises, as the connection is), the
\* messageId has the call's resolver in the registry and the call's timeout
\* is scheduled.
C26_RegisteredBeforeSend ==
    [][nextCall' = nextCall + 1 =>
          \E m \in MessageIds :
              /\ resolverQueue'[m] = nextCall
              /\ Timeout(m, nextCall, now + DefaultTimeoutMs) \in timeouts']_vars

\* The one call was made on a connected client: its body is on the wire, its
\* resolver is registered and its timeout is scheduled.
C26_Witness ==
    /\ connected
    /\ wire = <<1>>
    /\ nextCall = 2
    /\ resolverQueue["id-1"] = 1
    /\ timeouts = {Timeout("id-1", 1, now + DefaultTimeoutMs)}

\* C28: the message handler, run in any reachable state, changes nothing:
\* #connected, the socket handle, the interval, the queue and the registry
\* are as before, and no resolver is run (a pending call stays pending).
C28_MessageChangesNothing == onMessage(World) = World

\* A call is pending on a client whose socket is open, where a message may
\* arrive.
C28_Witness ==
    /\ connected
    /\ socket # 0 /\ readyState[socket] = "open"
    /\ resolverQueue["id-1"] = 1
    /\ delivered[1] = <<>>
    /\ ENABLED MessageEvent

\* C31: a call is given undefined (the timeout sentinel) only when its own
\* timeout is due, timeoutMs after its own registration, also when an
\* earlier call used the same messageId and that call's timeout is still
\* scheduled.
C31_SentinelNotBeforeOwnTimeout ==
    [][\A c \in Calls :
          (delivered[c] = <<>> /\ delivered'[c] = <<Undefined>>) =>
              \A t \in timeouts : t.call = c => now >= t.due]_vars

\* C39: the registry does not leak.  Under fair firing of the timers every
\* entry of the registry is removed in the end, and once every scheduled
\* timeout has fired the registry is empty.
C39_RegistryDrains ==
    /\ \A m \in MessageIds, c \in Calls :
          (resolverQueue[m] = c) ~> (resolverQueue[m] = 0)
    /\ [](timeouts = {} => \A m \in MessageIds : resolverQueue[m] = 0)

\* The same messageId was registered twice, the second time after the first
\* timeout had fired; both timeouts have fired and the registry is empty.
C39_Witness ==
    /\ nextCall = 3
    /\ delivered[1] = <<Undefined>> /\ delivered[2] = <<Undefined>>
    /\ orphaned = {}
    /\ timeouts = {}
    /\ \A m \in MessageIds : resolverQueue[m] = 0

----------------------------------------------------------------------------
(* The message queue and its flush by the open handler. *)

\* This step handles the open event of socket s (the handler's onOpen
\* callback may have closed s again).
OpenStep(s) ==
    /\ readyState[s] = "connecting"
    /\ readyState'[s] \in {"open", "closingOpen"}

OpenStepTaken == \E s \in SocketIds : OpenStep(s)

\* The age, at this moment, of item i of the queue is over the maximum.
Stale(i) ==
    /\ messageMaxQueueSeconds > 0
    /\ now - messageQueue[i].time > messageMaxQueueSeconds * MsPerSecond

\* The bodies of the queued items that are not stale, in queue order.
RECURSIVE FreshFrom(_)
FreshFrom(i) ==
    IF i > Len(messageQueue) THEN <<>>
    ELSE IF Stale(i) THEN FreshFrom(i + 1)
         ELSE <<messageQueue[i].message>> \o FreshFrom(i + 1)

Occurrences(seq, x) == Cardinality({j \in DOMAIN seq : seq[j] = x})

\* The last n elements of seq.
Last(seq, n) == SubSeq(seq, Len(seq) - n + 1, Len(seq))

\* In this step every fresh item of the queue is transmitted, once, the
\* last of all that the step transmits, in queue order.
FreshTransmitted ==
    LET fresh == FreshFrom(1)
    IN  /\ Len(wire') >= Len(wire) + Len(fresh)
        /\ Last(wire', Len(fresh)) = fresh
        /\ \A j \in DOMAIN fresh : Occurrences(wire', fresh[j]) = 1

\* C3: with messageMaxQueueSeconds > 0, no step transmits a queued message
\* whose age is over messageMaxQueueSeconds: the flush of an open event
\* skips it.
C3_StaleNeverTransmitted ==
    [][\A i \in DOMAIN messageQueue :
          Stale(i) => Occurrences(wire', messageQueue[i].message) = 0]_vars

\* Maximum one second, two bodies were queued, the only socket opened two
\* seconds later: the body queued first was skipped, the other one sent.
C3_Witness ==
    /\ messageMaxQueueSeconds = 1
    /\ now = 2 * MsPerSecond
    /\ readyState[1] = "open" /\ readyState[2] = "none"
    /\ nextMsg = 3
    /\ wire = <<2>>
    /\ messageQueue = <<>>

\* C4 as stated: with messageMaxQueueSeconds > 0, every open event transmits
\* every queued message of age at most messageMaxQueueSeconds, once and in
\* queue order.
C4_FreshAlwaysTransmitted ==
    [][messageMaxQueueSeconds > 0 /\ OpenStepTaken => FreshTransmitted]_vars

\* C4 amended: it does so when the opened socket is still open after the
\* onOpen callback; when the callback has closed it (by disconnect(),
\* reconnect() or init()) the open event transmits no queued message.
C4_FreshTransmittedOnOpenSocket ==
    [][\A s \in SocketIds :
          (messageMaxQueueSeconds > 0 /\ OpenStep(s)) =>
              IF readyState'[s] = "open" THEN FreshTransmitted
              ELSE \A i \in DOMAIN messageQueue :
                      Occurrences(wire', messageQueue[i].message) = 0]_vars

\* Maximum one second: two bodies, the first queued exactly one second
\* before the only socket opened, were both transmitted in queue order.
C4_Witness ==
    /\ messageMaxQueueSeconds = 1
    /\ now = MsPerSecond
    /\ readyState[1] = "open" /\ readyState[2] = "none"
    /\ nextMsg = 3
    /\ wire = <<1, 2>>
    /\ messageQueue = <<>>

\* C5: the queue is empty after every open event has been handled.
C5_QueueEmptyAfterOpen ==
    [][OpenStepTaken => messageQueue' = <<>>]_vars

\* C6: with messageQueueing false the queue is empty in every state, and a
\* step that starts while the client is not connected transmits nothing
\* but what the onOpen callback of that very step passes to send().
C6_NoQueueingNothingKept ==
    [][~messageQueueing =>
          /\ messageQueue' = <<>>
          /\ ~connected =>
                \A j \in (Len(wire) + 1)..Len(wire') :
                    OpenStepTaken /\ wire'[j] >= nextMsg]_vars

\* Queueing off: a body was passed to send() before the only socket opened;
\* the socket is open and the body was neither kept nor transmitted.
C6_Witness ==
    /\ ~messageQueueing
    /\ readyState[1] = "open" /\ readyState[2] = "none"
    /\ connected
    /\ nextMsg = 2
    /\ wire = <<>>
    /\ messageQueue = <<>>

\* C14: with messageQueueing true, send(body) in any reachable state either
\* transmits body at once (the client is connected) or appends it to the
\* tail of the queue (it is not connected): no send is dropped.
C14_SendTransmitsOrQueues ==
    messageQueueing =>
        LET sent == send(World, nextMsg)
        IN  IF isConnected(World)
            THEN sent.wire = Append(wire, nextMsg)
            ELSE sent.messageQueue =
                     Append(messageQueue, QueueItem(now, nextMsg))

\* No body is on the wire twice.
TransmittedAtMostOnce ==
    \A j, k \in DOMAIN wire : wire[j] = wire[k] => j = k

\* No body that was transmitted is in the queue.
TransmittedNotQueued ==
    \A i \in DOMAIN messageQueue : Occurrences(wire, messageQueue[i].message) = 0

\* C15: every body passed to send() is transmitted at most once, a body that
\* was transmitted is not in the queue, and the flush of an open event
\* leaves none of the items it went through in the queue, so that no later
\* flush goes through it again.
C15_AtMostOnce ==
    [][/\ TransmittedAtMostOnce'
       /\ TransmittedNotQueued'
       /\ OpenStepTaken =>
             \A i \in DOMAIN messageQueue, j \in DOMAIN messageQueue' :
                 messageQueue'[j] # messageQueue[i]]_vars

\* C17 as stated: with messageMaxQueueSeconds = 0, every open event
\* transmits every queued message, whatever its age, once and in queue
\* order.
C17_AllTransmittedWithoutMaximum ==
    [][messageMaxQueueSeconds = 0 /\ OpenStepTaken => FreshTransmitted]_vars

\* C17 amended: it does so when the opened socket is still open after the
\* onOpen callback; when the callback has closed it (by disconnect(),
\* reconnect() or init()) the open event transmits no queued message.
C17_AllTransmittedOnOpenSocket ==
    [][\A s \in SocketIds :
          (messageMaxQueueSeconds = 0 /\ OpenStep(s)) =>
              IF readyState'[s] = "open"
              THEN /\ FreshFrom(1) = [i \in DOMAIN messageQueue |->
                                         messageQueue[i].message]
                   /\ FreshTransmitted
              ELSE \A i \in DOMAIN messageQueue :
                      Occurrences(wire', messageQueue[i].message) = 0]_vars

\* No maximum: two bodies were both transmitted in queue order by the only
\* socket, two seconds after the client was created.
C17_Witness ==
    /\ messageMaxQueueSeconds = 0
    /\ now = 2 * MsPerSecond
    /\ readyState[1] = "open" /\ readyState[2] = "none"
    /\ nextMsg = 3
    /\ wire = <<1, 2>>
    /\ messageQueue = <<>>

\* The place of body x on the wire seq.
Place(seq, x) == CHOOSE j \in DOMAIN seq : seq[j] = x

\* C27: queued messages are transmitted in the order they were queued.  For
\* two items of the queue, the first queued before the second: a step that
\* transmits the second has the first on the wire ahead of it, or else
\* leaves the first out of the queue (no later flush will transmit it).
\* A step that queues a message puts it behind the queued ones.
C27_QueueOrderKept ==
    [][/\ Len(messageQueue') > Len(messageQueue) =>
             SubSeq(messageQueue', 1, Len(messageQueue)) = messageQueue
       /\ \A i1, i2 \in DOMAIN messageQueue :
          LET m1 == messageQueue[i1].message
              m2 == messageQueue[i2].message
          IN  (i1 < i2 /\ Occurrences(wire', m2) > 0) =>
                  IF Occurrences(wire', m1) > 0
                  THEN Place(wire', m1) < Place(wire', m2)
                  ELSE \A j \in DOMAIN messageQueue' :
                          messageQueue'[j].message # m1]_vars

\* Two bodies were queued and flushed by the second socket, after the first
\* socket had been closed without opening: they are on the wire in order.
C27_Witness ==
    /\ messageQueueing
    /\ readyState[1] = "closed" /\ readyState[2] = "open"
    /\ socket = 2 /\ connected
    /\ nextMsg = 3
    /\ wire = <<1, 2>>
    /\ messageQueue = <<>>

\* C36: the transmitted bodies are on the wire in the order of their send()
\* calls (bodies are numbered in that order), queued and direct alike: a
\* body the onOpen callback passes to send() is not ahead of the bodies
\* that were queued before the socket opened.
C36_WireInSendOrder ==
    \A j, k \in DOMAIN wire : j < k => wire[j] <= wire[k]

\* C37: between event handlers, the queue of a connected client is empty.
C37_ConnectedQueueEmpty ==
    isConnected(World) => messageQueue = <<>>

\* C38: the queue is changed by nothing but send() on a client that is not
\* connected, which appends the body, and the open handler, which clears
\* it: init(), reconnect(), disconnect(), interval ticks and close, error
\* and message events leave every item where it is.
C38_QueueFrame ==
    [][messageQueue' # messageQueue =>
          \/ /\ ~connected
             /\ nextMsg' = nextMsg + 1
             /\ messageQueue' = Append(messageQueue, QueueItem(now, nextMsg))
          \/ /\ OpenStepTaken
             /\ messageQueue' = <<>>]_vars

\* A body was queued while the only socket was connecting; disconnect() and
\* the events of the closed socket have left it in the queue.
C38_Witness ==
    /\ ~shouldReconnect
    /\ socket = 0
    /\ readyState[1] = "closed" /\ readyState[2] = "none"
    /\ Len(messageQueue) = 1
    /\ messageQueue[1].message = 1
    /\ wire = <<>>

----------------------------------------------------------------------------
(* The reconnect interval and the socket handle. *)

\* C7: at most one reconnect interval of the client is active.
C7_AtMostOneInterval == Cardinality(intervals) <= 1

\* The interval was started a second time: the one active interval is the
\* second, the first was cleared.
C7_Witness ==
    /\ reconnectIntervalHandle = 2
    /\ intervals = {2}

\* C8: every socket the client created that is neither closed nor closing
\* is the client's current handle, so there is at most one.
C8_AtMostOneLiveSocket ==
    /\ \A s \in SocketIds :
          readyState[s] \in {"connecting", "open"} => socket = s
    /\ Cardinality({s \in SocketIds :
                       readyState[s] \in {"connecting", "open"}}) <= 1

\* A second connection attempt was made while the first socket was open:
\* the first was closed, the second is the live one.
C8_Witness ==
    /\ readyState[1] = "closingOpen"
    /\ readyState[2] = "connecting"
    /\ socket = 2

\* C9: from disconnect() until the next init() or reconnect() (the reconnect
\* flag stays false) no socket is created and no interval is active.
C9_NoReconnectAfterDisconnect ==
    [][(~shouldReconnect /\ ~shouldReconnect') =>
          /\ SocketCount(World)' = SocketCount(World)
          /\ intervals' = {}]_vars

\* C10: after disconnect() and until the next init() or reconnect() (the
\* reconnect flag is false) isConnected() returns false.
C10_DisconnectedAfterDisconnect ==
    ~shouldReconnect => ~isConnected(World)

\* The world w with room for the sockets of two more connect().
Roomy(w) ==
    [w EXCEPT !.readyState =
        [s \in 1..(MaxSockets + 2) |->
            IF s \in SocketIds THEN w.readyState[s] ELSE "none"]]

\* What the client's state is for the caller of init(): the flag, how many
\* intervals are active and whether the handle names one, how many sockets
\* are live and whether the handle names one, #connected, queue, registry.
InitView(w) ==
    LET live == {s \in DOMAIN w.readyState :
                    w.readyState[s] \in {"connecting", "open"}}
    IN  [shouldReconnect |-> w.shouldReconnect,
         timers |-> Cardinality(w.intervals),
         timerHeld |-> w.reconnectIntervalHandle \in w.intervals,
         sockets |-> Cardinality(live),
         socketHeld |-> w.socket \in live,
         connected |-> w.connected,
         messageQueue |-> w.messageQueue,
         resolverQueue |-> w.resolverQueue]

\* C19: in every reachable state, init() called twice in succession leaves
\* the client as init() called once does: the flag true, exactly one
\* interval active, exactly one live socket, both held by the client, and
\* #connected, the queue and the registry as they were.
C19_InitIdempotent ==
    LET before == Roomy(World)
        once == init(before)
        twice == init(once)
    IN  /\ InitView(twice) = InitView(once)
        /\ InitView(once) =
              [shouldReconnect |-> TRUE, timers |-> 1, timerHeld |-> TRUE,
               sockets |-> 1, socketHeld |-> TRUE, connected |-> connected,
               messageQueue |-> messageQueue,
               resolverQueue |-> resolverQueue]

\* init() was called twice on a new client: the first socket was closed, the
\* second is the live one, and the second interval is the active one.
C19_Witness ==
    /\ shouldReconnect /\ ~connected
    /\ readyState[1] = "closingConnect"
    /\ readyState[2] = "connecting"
    /\ socket = 2
    /\ reconnectIntervalHandle = 2
    /\ intervals = {2}
    /\ now = 0 /\ nextMsg = 1

\* In this step the onOpen callback passes a body to send().
HookSends == nextMsg' = nextMsg + 1

\* In this step the onOpen callback calls reconnect() or init().
HookReconnects == SocketCount(World)' = SocketCount(World) + 1

\* What the order of the open handler's steps shows to its onOpen callback
\* and on the wire: a body the callback passes to send() is transmitted at
\* once (the client is marked connected by then) and ahead of the queued
\* messages (the flush comes last); an interval the callback starts is
\* still active afterwards (the handler cleared the interval before).
OpenStepsInOrder ==
    /\ HookSends => wire' = wire \o <<nextMsg>> \o FreshFrom(1)
    /\ HookReconnects => intervals' = {reconnectIntervalHandle'}

\* C20 as stated: an open event is handled in the order mark connected,
\* clear the interval, onOpen callback, flush; after it the client is
\* connected and no interval is active.
C20_OpenHandlerOrder ==
    [][OpenStepTaken =>
          /\ OpenStepsInOrder
          /\ connected'
          /\ intervals' = {}]_vars

\* C20 amended: after it the client is marked connected, and no interval is
\* active unless the onOpen callback called reconnect() or init().
C20_OpenHandlerOrderUnlessRestarted ==
    [][OpenStepTaken =>
          /\ OpenStepsInOrder
          /\ connected'
          /\ ~HookReconnects => intervals' = {}]_vars

\* A body was queued, then the socket opened and its onOpen callback passed
\* a second body to send(): the second is on the wire ahead of the first.
C20_Witness ==
    /\ readyState[1] = "open" /\ readyState[2] = "none"
    /\ connected
    /\ intervals = {}
    /\ wire = <<2, 1>>
    /\ messageQueue = <<>>

\* C21: the close handler, run in any reachable state, marks the client not
\* connected; with the reconnect flag true it restarts the interval (the
\* one it held is cleared, a new one is the only active one), with the flag
\* false it leaves the intervals as they are, so an inactive timer stays
\* inactive.  Nothing else is written.
C21_CloseRestartsIffFlag ==
    LET closed == onClose(World)
    IN  /\ ~closed.connected
        /\ IF shouldReconnect
           THEN /\ closed.intervals = {closed.reconnectIntervalHandle}
                /\ closed.reconnectIntervalHandle # reconnectIntervalHandle
           ELSE /\ closed.intervals = intervals
                /\ closed.reconnectIntervalHandle = reconnectIntervalHandle
        /\ closed = [World EXCEPT
                        !.connected = FALSE,
                        !.intervals = closed.intervals,
                        !.reconnectIntervalHandle =
                            closed.reconnectIntervalHandle]

\* The only socket was opened and then closed by the server: the client is
\* not connected and the close handler has started a second interval.
C21_Witness ==
    /\ shouldReconnect /\ ~connected
    /\ readyState[1] = "closed" /\ readyState[2] = "none"
    /\ socket = 1
    /\ reconnectIntervalHandle = 2
    /\ intervals = {2}

\* This step handles the error event of socket s, whose connection was not
\* established (and the close event that follows it in the same task).
ErrorStep(s) ==
    /\ readyState[s] \in {"connecting", "closingConnect"}
    /\ readyState'[s] = "closed"

\* C22: handling an error event while the reconnect flag is false leaves
\* the reconnect interval inactive.
C22_ErrorRestartsOnlyIfFlag ==
    [][\A s \in SocketIds :
          (ErrorStep(s) /\ ~shouldReconnect) => intervals' = {}]_vars

\* C23: handling an error event while the reconnect flag is true makes the
\* next connection attempt at once: the step creates a socket.
C23_ErrorConnectsAtOnce ==
    [][\A s \in SocketIds :
          (ErrorStep(s) /\ shouldReconnect /\ CanConnect) =>
              /\ SocketCount(World)' = SocketCount(World) + 1
              /\ readyState'[socket'] = "connecting"]_vars

\* The sockets of w that are connecting or open.
Live(w) ==
    {s \in DOMAIN w.readyState : w.readyState[s] \in {"connecting", "open"}}

\* C24: reconnect(), called in any reachable state (after disconnect() as
\* well), leaves the reconnect flag true, the socket the client held closed
\* or closing, exactly one interval active, and a socket created by the
\* call, which is connecting, as the client's handle and the only live
\* socket.
C24_ReconnectPostcondition ==
    LET before == Roomy(World)
        after == reconnect(before)
    IN  /\ after.shouldReconnect
        /\ socket # 0 => after.readyState[socket] \notin {"connecting", "open"}
        /\ after.intervals = {after.reconnectIntervalHandle}
        /\ after.socket = SocketCount(before) + 1
        /\ before.readyState[after.socket] = "none"
        /\ after.readyState[after.socket] = "connecting"
        /\ Live(after) = {after.socket}

\* reconnect() on a client whose first socket was open: that socket is
\* closing, the second one is connecting, the second interval is active.
C24_Witness ==
    /\ shouldReconnect
    /\ readyState[1] = "closingOpen"
    /\ readyState[2] = "connecting"
    /\ socket = 2
    /\ intervals = {reconnectIntervalHandle}
    /\ connected

\* No socket is connecting and the model creates no further socket.
SocketsSpent ==
    /\ ~CanConnect
    /\ \A s \in SocketIds : readyState[s] # "connecting"

----------------------------------------------------------------------------
(* The id generator. *)

\* C29: any two ids returned by SerializedId.next (through getNextMessageId
\* of any client or directly, with any tags) are different strings: the n-th
\* id returned ends in "-" and the decimal digits of n.
C29_IdsUnique ==
    /\ Len(issued) = idx
    /\ \A j, k \in DOMAIN issued : issued[j] = issued[k] => j = k
    /\ \A j \in DOMAIN issued :
          LET suffix == <<"-">> \o NumberToString(j)
          IN  /\ Len(issued[j]) >= Len(suffix)
              /\ Last(issued[j], Len(suffix)) = suffix

\* Three ids were taken with tags that differ only in case and without a
\* tag: "a-1", "a-2", "message-id-3".
C29_Witness ==
    issued = <<<<"a", "-", "1">>, <<"a", "-", "2">>,
               MessageIdPrefix \o <<"3">>>>

----------------------------------------------------------------------------
(* Two clients of one page. *)

\* What a step of the current client leaves of the second one: its fields,
\* its sockets, its reconnect timer, its scheduled timeouts, its promises.
Untouched(before, after) ==
    LET peer == before.other
    IN  /\ after.other = peer
        /\ (peer.reconnectIntervalHandle \in after.intervals)
              <=> (peer.reconnectIntervalHandle \in before.intervals)
        /\ \A s \in peer.sockets : after.readyState[s] = before.readyState[s]
        /\ {t \in after.timeouts : t.call \in peer.calls}
              = {t \in before.timeouts : t.call \in peer.calls}
        /\ \A c \in peer.calls :
              /\ after.delivered[c] = before.delivered[c]
              /\ c \in after.orphaned <=> c \in before.orphaned

----------------------------------------------------------------------------
(* The connection state between event handlers. *)

\* C32: whenever isConnected() returns true the client's socket handle names
\* an open socket, and a send() made then is transmitted; also right after
\* disconnect(), reconnect() or a second init(), before the close event of
\* the old socket is delivered.
C32_ConnectedMeansOpenSocket ==
    isConnected(World) =>
        /\ socket # 0
        /\ readyState[socket] = "open"
        /\ send(World, nextMsg).wire = Append(wire, nextMsg)

\* This step handles the close event of socket s, which the client closed.
ReplacedCloseStep(s) ==
    /\ readyState[s] = "closingOpen"
    /\ readyState'[s] = "closed"

\* C33: the close event of a socket that a newer handle has replaced leaves
\* the connection state alone: when the current socket is open (its open
\* event was handled, it had no close and no error), the client connected
\* and no interval active, then after the older socket's close event the
\* client is still connected and no interval is active.
C33_ReplacedCloseKeepsConnection ==
    [][\A s \in SocketIds :
          (/\ ReplacedCloseStep(s)
           /\ socket # 0 /\ socket # s
           /\ readyState[socket] = "open"
           /\ connected
           /\ intervals = {}) =>
              /\ connected'
              /\ intervals' = {}]_vars

\* C34: handling the error event of a socket closes that socket only: when
\* the client's handle names another socket (the one that reported the
\* error was replaced), the ready state of the current socket is unchanged.
C34_ErrorClosesOnlyItsSocket ==
    [][\A s \in SocketIds :
          (ErrorStep(s) /\ socket # 0 /\ socket # s) =>
              readyState'[socket] = readyState[socket]]_vars

\* C35: between event handlers, a client whose reconnect flag is true and
\* that is not connected has its reconnect interval active: the next
\* connection attempt is pending.
C35_ReconnectingHasTimer ==
    (shouldReconnect /\ ~isConnected(World)) =>
        reconnectIntervalHandle \in intervals

\* The only socket is closed and nothing was transmitted: the handlers of
\* its events have left the client with an active interval.
C35_Witness ==
    /\ shouldReconnect /\ ~connected
    /\ socket = 1
    /\ readyState[1] = "closed" /\ readyState[2] = "none"
    /\ wire = <<>>
    /\ intervals = {reconnectIntervalHandle}

====
